---- MODULE Spec2Model ----
(***************************************************************************)
(* Video OCR: the Tesseract wrapper of the backend (ocr_engine.py) and the *)
(* message, storage and clipboard flow of the Chrome extension             *)
(* (background.js, content script, popup.js).                              *)
(*                                                                         *)
(* Texts are sequences of one-character strings.  Engine confidences are   *)
(* carried in tenths (509 is 50.9) so that int() has something to cut off; *)
(* the mean confidence of a result is carried in hundredths (5733 is       *)
(* 57.33).                                                                 *)
(***************************************************************************)
EXTENDS Integers, Sequences, FiniteSets, TLC

VARIABLES
    engineAvailable,  \* whether the tesseract binary can be run
    engineText,       \* what image_to_string yields for the image
    data,             \* what image_to_data yields for the image (parallel lists)
    outcome,          \* how the recognizer operation that ran ended
    engineCalls,      \* number of pytesseract calls made so far
    req,              \* the ocr_request messages: sender, mode, progress, answer
    backendLog,       \* the requests the worker has sent to the backend
    clipboardMsgs,    \* the copy_to_clipboard messages the worker has sent
    clipboard,        \* the text on the system clipboard
    history,          \* chrome.storage.local: history
    latestResult,     \* chrome.storage.local: latestResult
    upd,              \* the storage round trip of each updatePopup call
    popup,            \* the popup's deletion or clearing in progress
    rendered,         \* the history list the popup shows
    userDeleted,      \* ids of the entries a deletion or clearing took out
    modal,            \* the content script's result modal
    overlayActive,    \* content script: overlayActive
    selectionOverlay, \* content script: the overlay element is in the page
    isSelecting,      \* content script: isSelecting
    docListeners,     \* the document listeners activateOverlay has registered
    sel,              \* the selections begun, captured, sent and cancelled
    key,              \* the keydown events dispatched to the page
    api,              \* API_URL of the worker and apiUrl of chrome.storage.local
    img,              \* preprocessor: the decoded grayscale image
    sharpened,        \* preprocessor: what preprocess_image_fast returned
    version,          \* what tesseract --version reports
    languages,        \* what tesseract --list-langs reports
    langsFail,        \* whether get_languages fails although the binary runs
    ocr_queue,        \* WebSocket sketch: ocr_queue
    results,          \* WebSocket sketch: results
    conn,             \* WebSocket sketch: each connection, client and handler
    busy,             \* WebSocket sketch: the tasks the workers are processing
    monitor,          \* ContinuousMonitor: isRunning, previousHash, frames
    connection        \* popup: connectionStatus and the checkConnection calls

ocrVars == <<engineAvailable, engineText, data, outcome, engineCalls>>

extVars == <<req, backendLog, clipboardMsgs, clipboard, history, latestResult,
             upd, popup, rendered, userDeleted, modal>>

ovlVars == <<overlayActive, selectionOverlay, isSelecting, docListeners, sel, key>>

apiVars == <<api>>

pixVars == <<img, sharpened>>

infoVars == <<version, languages, langsFail>>

wsVars == <<ocr_queue, results, conn, busy>>

sideVars == <<monitor, connection>>

\* what the recognizer does not touch, and what the extension does not touch
outsideOcr == <<extVars, ovlVars, apiVars, pixVars, infoVars, wsVars, sideVars>>

outsideExt == <<ocrVars, pixVars, infoVars, wsVars, sideVars>>

vars == <<ocrVars, extVars, ovlVars, apiVars, pixVars, infoVars, wsVars, sideVars>>

-----------------------------------------------------------------------------
(* Bounds of the model *)

MaxTokens == 3

MaxTextLen == 4

MaxRequests == 2

MaxPopupOps == 1

MaxSelections == 2

MaxKeys == 4

MaxApiSets == 1

MaxWidth == 2

MaxHeight == 2

MaxLangs == 2

MaxConns == 2

MaxWsRequests == 2

MaxOldDone == 1

MaxChecks == 3

MaxConnChecks == 2

-----------------------------------------------------------------------------
(* Python helpers *)

Whitespace == {" ", "\n", "\t"}

Chars == {" ", "\n", "a"}

IsSpace(c) == c \in Whitespace

RECURSIVE RStrip(_)
\* str.rstrip(): drop whitespace from the right end
RStrip(s) ==
    IF s = <<>> THEN s
    ELSE IF IsSpace(s[Len(s)]) THEN RStrip(SubSeq(s, 1, Len(s) - 1))
    ELSE s

RECURSIVE LStrip(_)
\* str.lstrip(): drop whitespace from the left end
LStrip(s) ==
    IF s = <<>> THEN s
    ELSE IF IsSpace(Head(s)) THEN LStrip(Tail(s))
    ELSE s

\* str.strip()
Strip(s) == LStrip(RStrip(s))

\* int(x) of a number given in tenths: truncation toward zero
PyInt(x10) == IF x10 >= 0 THEN x10 \div 10 ELSE -((-x10) \div 10)

RECURSIVE SumConf(_)
\* sum([w['confidence'] for w in words])
SumConf(ws) == IF ws = <<>> THEN 0 ELSE Head(ws).confidence + SumConf(Tail(ws))

RECURSIVE JoinTexts(_)
\* ' '.join([w['text'] for w in words])
JoinTexts(ws) ==
    IF ws = <<>> THEN <<>>
    ELSE IF Len(ws) = 1 THEN Head(ws).text
    ELSE Head(ws).text \o <<" ">> \o JoinTexts(Tail(ws))

\* Truncating variant of Round2 (drops the digits after the second decimal)
Round2Truncating(num, den) == (100 * num) \div den

\* round(num / den, 2) in hundredths, for num >= 0 and den > 0: the nearest
\* hundredth, an exact half going to the even one.  An exact half needs
\* 8 | den (100 * num / den = k + 1/2), and every such quotient is a
\* multiple of 1/8, which a float holds exactly.
Round2(num, den) ==
    LET q == (100 * num) \div den
        r == (100 * num) % den
    IN  IF 2 * r < den THEN q
        ELSE IF 2 * r > den THEN q + 1
        ELSE IF q % 2 = 0 THEN q ELSE q + 1

-----------------------------------------------------------------------------
(* The engine (pytesseract) as the wrapper sees it *)

TokenTexts == {<<>>, <<" ">>, <<" ", "a">>}

\* confidences in tenths: -1 (no word), 50, 50.9, 51, 60, 61, 80, 81, 100
RawConfs == {-10, 500, 509, 510, 600, 610, 800, 810, 1000}

\* image_to_data(..., output_type=Output.DICT) with n rows of texts t and
\* confidences c; row i has the box (left, top, width, height) = (i, 0, 1, 1)
EngineDataOf(n, t, c) ==
    [text |-> t, conf |-> c,
     left |-> [i \in 1..n |-> i], top |-> [i \in 1..n |-> 0],
     width |-> [i \in 1..n |-> 1], height |-> [i \in 1..n |-> 1]]

RECURSIVE StringsOf(_)
StringsOf(n) ==
    IF n = 0 THEN {<<>>}
    ELSE LET shorter == StringsOf(n - 1)
         IN  shorter \cup { Append(s, c) : s \in { t \in shorter : Len(t) = n - 1 }, c \in Chars }

EngineTexts == StringsOf(MaxTextLen)

NoOutcome == [op |-> "none"]

Return(op, value) == [op |-> op, kind |-> "return", value |-> value]

\* pytesseract raises TesseractNotFoundError when the binary cannot be run
Raise(op) ==
    [op |-> op, kind |-> "raise", error |-> "TesseractNotFoundError",
     message |-> "tesseract is not installed or it's not in your PATH"]

-----------------------------------------------------------------------------
(* The extension: state *)

HistoryLimit == 50

\* message.mode of an ocr_request: the content script sends 'fast' and
\* 'quality'; 'bogus' names no mode
SupportedModes == {"fast", "quality"}

UnsupportedModes == {"bogus"}

\* result.text and result.mode of the backend's JSON ("" is absent or empty)
ResultTexts == {"", "abc"}

ResultModes == {"", "quality"}

Requests == 1..MaxRequests

NoResult == [text |-> "", mode |-> ""]

NoResponse == [sent |-> FALSE, success |-> FALSE, text |-> "", mode |-> "", error |-> ""]

NoRequest ==
    [pc |-> "unsent", origin |-> "", mode |-> "", result |-> NoResult,
     response |-> NoResponse]

NoEntry == [id |-> 0, text |-> "", mode |-> ""]

NoUpdate == [pc |-> "none", entry |-> NoEntry, value |-> <<>>]

NoPopupOp == [pc |-> "idle", index |-> 0, clicked |-> 0, value |-> <<>>, removed |-> {},
              ops |-> 0]

NoModal == [shown |-> FALSE, req |-> 0, mode |-> "", retry |-> FALSE, loading |-> FALSE]

\* the listeners activateOverlay adds to the document
OverlayListeners == {"mousemove", "mouseup", "keydown"}

\* the keys the model presses
Keys == {"Escape", "Alt+Shift+S", "Alt+Shift+D"}

NoSelections == [current |-> 0, count |-> 0, capturing |-> {}, sent |-> {}, cancelled |-> {}]

NoKey == [last |-> "", count |-> 0]

\* let API_URL = 'http://localhost:8080'
DefaultApiUrl == "http://localhost:8080"

\* the URLs a set_api_url message carries
ApiUrls == {"http://localhost:8000", "http://10.0.0.5:9000"}

\* The worker's API_URL and chrome.storage.local's apiUrl ("" is none) when
\* the worker starts: the startup get and the health check are still to run
ApiStart(stored) ==
    [url |-> DefaultApiUrl, stored |-> stored, load |-> "get", loaded |-> "",
     writes |-> <<>>, sets |-> 0, health |-> FALSE]

\* The same once the startup get found nothing stored and the health check ran
ApiSettled == [ApiStart("") EXCEPT !.load = "done", !.health = TRUE]

\* An entry stored before the model starts; entry 1 is the newest
OldEntry(k) == [id |-> -k, text |-> "old", mode |-> "fast"]

OldHistory(n) == [k \in 1..n |-> OldEntry(k)]

\* no image decoded, nothing returned
NoImage == [h |-> 0, w |-> 0, px |-> <<>>]

PixIdle ==
    /\ img = NoImage
    /\ sharpened = NoImage

\* tesseract 5.3.0 with English installed
InfoDefault ==
    /\ version = <<5, 3, 0>>
    /\ languages = <<"eng">>
    /\ langsFail = FALSE

\* the connections of the WebSocket sketch and the request ids their clients use
Conns == 1..MaxConns

WsIds == 0..(MaxWsRequests - 1)

\* the request id of the tasks queued before the model starts
OldId == -1

NoWsResult == [status |-> "none"]

\* A connection just accepted: the handler waits in receive_text, the client
\* (OCRWebSocket) has requestId = 0 and has sent nothing
NewConn == [pc |-> "receive", request_id |-> OldId, nextId |-> 0, inbox |-> <<>>,
            sent |-> <<>>]

\* ocr_queue = Queue(maxsize=100)
QueueMaxsize == 100

NUM_WORKERS == 3

\* The server with n tasks of earlier clients left in the queue (the workers
\* being busy with three more of them if there are any) and no result stored
WsStart(n) ==
    /\ ocr_queue = [backlog |-> n, tasks |-> <<>>]
    /\ results = [id \in WsIds \cup {OldId} |-> NoWsResult]
    /\ conn = [c \in Conns |-> NewConn]
    /\ busy = [old |-> IF n > 0 THEN NUM_WORKERS ELSE 0, oldDone |-> 0, tasks |-> {}]

\* the brightest grey level of a pixel
White == 255

\* ContinuousMonitor's constructor: previousHash = null, isRunning = false;
\* frames are the frames checkFrame has captured, sent those it has sent
NoHash == <<>>

NewMonitor == [isRunning |-> FALSE, previousHash |-> NoHash, frames |-> <<>>,
               sent |-> <<>>]

\* the popup before its first checkConnection: the status line is empty
NewConnection == [status |-> "", calls |-> <<>>]

SideIdle ==
    /\ monitor = NewMonitor
    /\ connection = NewConnection

\* the preprocessor, the readiness check, the WebSocket sketch and the
\* monitor not in use
BackendIdle ==
    /\ PixIdle
    /\ InfoDefault
    /\ WsStart(0)
    /\ SideIdle

OcrIdle ==
    /\ engineAvailable = TRUE
    /\ engineText = <<>>
    /\ data = EngineDataOf(0, <<>>, <<>>)
    /\ outcome = NoOutcome
    /\ engineCalls = 0

\* The worker, the storage, the popup and the modal with n entries stored and
\* nothing under way
ExtCore(n) ==
    /\ req = [r \in Requests |-> NoRequest]
    /\ backendLog = <<>>
    /\ clipboardMsgs = {}
    /\ clipboard = ""
    /\ history = OldHistory(n)
    /\ latestResult = IF n = 0 THEN NoEntry ELSE OldEntry(1)
    /\ upd = [r \in Requests |-> NoUpdate]
    /\ popup = NoPopupOp
    /\ rendered = <<>>
    /\ userDeleted = {}
    /\ modal = NoModal

\* The content script as loaded: let overlayActive = false, ...
OverlayIdle ==
    /\ overlayActive = FALSE
    /\ selectionOverlay = FALSE
    /\ isSelecting = FALSE
    /\ docListeners = {}
    /\ sel = NoSelections
    /\ key = NoKey

\* The extension with n entries stored and nothing under way
ExtInit(n) ==
    /\ ExtCore(n)
    /\ OverlayIdle
    /\ api = ApiSettled

\* The extension starts with an empty, an almost full or a full history
Init ==
    /\ OcrIdle
    /\ \E n \in {0, HistoryLimit - 1, HistoryLimit} : ExtInit(n)
    /\ BackendIdle

-----------------------------------------------------------------------------
(* background.js: the ocr_request listener and handleOCRRequest *)

\* fetch(`${API_URL}/ocr`, ...): the listener passes only the blob on, and
\* handleOCRRequest posts to /ocr whatever message.mode is
OcrEndpoint(mode) == "/ocr"

\* The listener's ocr_request branch and handleOCRRequest up to its fetch:
\* the message of request r is taken and the image is posted
SendRequest(r, origin, mode) ==
    /\ req[r].pc = "unsent"
    /\ \A q \in Requests : q < r => req[q].pc # "unsent"
    /\ req' = [req EXCEPT ![r] =
                  [NoRequest EXCEPT !.pc = "fetch", !.origin = origin, !.mode = mode]]
    /\ backendLog' = Append(backendLog,
                            [req |-> r, method |-> "POST", url |-> api.url,
                             path |-> OcrEndpoint(mode)])

\* newEntry of updatePopup; id and timestamp (Date.now()) are stood for by
\* the request's number, later requests having larger ones
NewEntry(r, result) ==
    [id |-> r, text |-> result.text,
     mode |-> IF result.mode = "" THEN "fast" ELSE result.mode]

\* if (history.length > 50) history = history.slice(0, 50)
Trim(h) == IF Len(h) > HistoryLimit THEN SubSeq(h, 1, HistoryLimit) ELSE h

\* The end of handleOCRRequest's try block, run without a pause: updatePopup
\* builds the entry and asks storage for the history, the result is returned
\* and the listener answers { success: true, ...result }
Finish(r, result) ==
    /\ upd' = [upd EXCEPT ![r] = [pc |-> "get", entry |-> NewEntry(r, result),
                                  value |-> <<>>]]
    /\ req' = [req EXCEPT ![r].pc = "responded",
                          ![r].result = result,
                          ![r].response = [sent |-> TRUE, success |-> TRUE,
                                           text |-> result.text, mode |-> result.mode,
                                           error |-> ""]]

\* The listener's catch: sendResponse({ success: false, error: error.message })
Fail(r, message) ==
    req' = [req EXCEPT ![r].pc = "responded",
                       ![r].response = [sent |-> TRUE, success |-> FALSE, text |-> "",
                                        mode |-> "", error |-> message]]

\* The user finishes a selection: captureFrame, sendToBackend(blob)
Capture ==
    /\ \E r \in Requests : SendRequest(r, "capture", "fast")
    /\ UNCHANGED <<clipboardMsgs, clipboard, history, latestResult, upd, popup,
                   rendered, userDeleted, modal>>
    /\ UNCHANGED <<ovlVars, apiVars>>
    /\ UNCHANGED outsideExt

\* The user clicks 'Retry High Accuracy': setLoading(true), then
\* sendToBackend(blob, 'quality')
RetryClick ==
    /\ modal.shown
    /\ modal.retry
    /\ ~modal.loading
    /\ \E r \in Requests : SendRequest(r, "retry", "quality")
    /\ modal' = [modal EXCEPT !.loading = TRUE]
    /\ UNCHANGED <<clipboardMsgs, clipboard, history, latestResult, upd, popup,
                   rendered, userDeleted>>
    /\ UNCHANGED <<ovlVars, apiVars>>
    /\ UNCHANGED outsideExt

\* An ocr_request from another sender, with a mode string that names no mode
OtherRequest ==
    /\ \E r \in Requests : \E mode \in UnsupportedModes : SendRequest(r, "other", mode)
    /\ UNCHANGED <<clipboardMsgs, clipboard, history, latestResult, upd, popup,
                   rendered, userDeleted, modal>>
    /\ UNCHANGED <<ovlVars, apiVars>>
    /\ UNCHANGED outsideExt

\* the body of a response whose status is not OK (errorText)
ErrorTexts == {"detail", "Failed to fetch"}

\* The catch of handleOCRRequest: an error whose message includes 'Failed to
\* fetch' is replaced by 'Cannot connect to backend at ${API_URL}. Make sure
\* the server is running.', any other error is thrown on as it is
Rethrown(message, includesFailedToFetch) ==
    IF includesFailedToFetch THEN "Cannot connect to backend" ELSE message

\* fetch rejects (TypeError: Failed to fetch): the catch rethrows and the
\* listener answers with the error
FetchFails ==
    /\ \E r \in Requests :
          /\ req[r].pc = "fetch"
          /\ Fail(r, Rethrown("Failed to fetch", TRUE))
    /\ UNCHANGED <<backendLog, clipboardMsgs, clipboard, history, latestResult, upd,
                   popup, rendered, userDeleted, modal>>
    /\ UNCHANGED <<ovlVars, apiVars>>
    /\ UNCHANGED outsideExt

\* A handler that does not test response.ok and reads the body as a result
FetchNotOkUnchecked ==
    /\ \E r \in Requests :
          /\ req[r].pc = "fetch"
          /\ Finish(r, NoResult)
    /\ UNCHANGED <<backendLog, clipboardMsgs, clipboard, history, latestResult,
                   popup, rendered, userDeleted, modal>>
    /\ UNCHANGED <<ovlVars, apiVars>>
    /\ UNCHANGED outsideExt

\* The backend answers with a status that is not OK: the handler throws
\* `Backend error: ${response.status} - ${errorText}` into its own catch
FetchNotOk ==
    /\ \E r \in Requests : \E errorText \in ErrorTexts :
          /\ req[r].pc = "fetch"
          /\ Fail(r, Rethrown("Backend error", errorText = "Failed to fetch"))
    /\ UNCHANGED <<backendLog, clipboardMsgs, clipboard, history, latestResult, upd,
                   popup, rendered, userDeleted, modal>>
    /\ UNCHANGED <<ovlVars, apiVars>>
    /\ UNCHANGED outsideExt

\* A handler that calls copyToClipboard without testing result.text
FetchOkAlwaysCopies ==
    /\ \E r \in Requests : \E text \in ResultTexts, mode \in ResultModes :
          /\ req[r].pc = "fetch"
          /\ req' = [req EXCEPT ![r].pc = "tabs",
                                ![r].result = [text |-> text, mode |-> mode]]
          /\ UNCHANGED upd
    /\ UNCHANGED <<backendLog, clipboardMsgs, clipboard, history, latestResult,
                   popup, rendered, userDeleted, modal>>
    /\ UNCHANGED <<ovlVars, apiVars>>
    /\ UNCHANGED outsideExt

\* The backend answers OK with a JSON result: with text, copyToClipboard
\* starts (chrome.tabs.query); without, the handler runs to its end
FetchOk ==
    /\ \E r \in Requests : \E text \in ResultTexts, mode \in ResultModes :
          /\ req[r].pc = "fetch"
          /\ IF text # ""
             THEN /\ req' = [req EXCEPT ![r].pc = "tabs",
                                        ![r].result = [text |-> text, mode |-> mode]]
                  /\ UNCHANGED upd
             ELSE Finish(r, [text |-> text, mode |-> mode])
    /\ UNCHANGED <<backendLog, clipboardMsgs, clipboard, history, latestResult,
                   popup, rendered, userDeleted, modal>>
    /\ UNCHANGED <<ovlVars, apiVars>>
    /\ UNCHANGED outsideExt

\* copyToClipboard after chrome.tabs.query: with an active tab the text is
\* sent to it; without one the handler runs to its end
TabsQueried ==
    /\ \E r \in Requests : \E hasTab \in BOOLEAN :
          /\ req[r].pc = "tabs"
          /\ IF hasTab
             THEN /\ clipboardMsgs' = clipboardMsgs \cup
                        {[req |-> r, action |-> "copy_to_clipboard",
                          text |-> req[r].result.text]}
                  /\ req' = [req EXCEPT ![r].pc = "clipwait"]
                  /\ UNCHANGED upd
             ELSE /\ Finish(r, req[r].result)
                  /\ UNCHANGED clipboardMsgs
    /\ UNCHANGED <<backendLog, clipboard, history, latestResult, popup, rendered,
                   userDeleted, modal>>
    /\ UNCHANGED <<ovlVars, apiVars>>
    /\ UNCHANGED outsideExt

\* The content script's copy_to_clipboard listener has written the text (or
\* failed to) and answered; copyToClipboard returns or swallows the error,
\* and the handler runs to its end
ClipboardSettled ==
    /\ \E r \in Requests : \E written \in BOOLEAN :
          /\ req[r].pc = "clipwait"
          /\ clipboard' = IF written THEN req[r].result.text ELSE clipboard
          /\ Finish(r, req[r].result)
    /\ UNCHANGED <<backendLog, clipboardMsgs, history, latestResult, popup, rendered,
                   userDeleted, modal>>
    /\ UNCHANGED <<ovlVars, apiVars>>
    /\ UNCHANGED outsideExt

\* updatePopup: chrome.storage.local.get(['history']) reads the history and
\* the callback unshifts the entry, cuts the list to 50 and asks for the set
StorageGet ==
    /\ \E r \in Requests :
          /\ upd[r].pc = "get"
          /\ upd' = [upd EXCEPT ![r].pc = "set",
                                ![r].value = Trim(<<upd[r].entry>> \o history)]
    /\ UNCHANGED <<req, backendLog, clipboardMsgs, clipboard, history, latestResult,
                   popup, rendered, userDeleted, modal>>
    /\ UNCHANGED <<ovlVars, apiVars>>
    /\ UNCHANGED outsideExt

\* updatePopup: chrome.storage.local.set({ latestResult, history }) is applied
StorageSet ==
    /\ \E r \in Requests :
          /\ upd[r].pc = "set"
          /\ history' = upd[r].value
          /\ latestResult' = upd[r].entry
          /\ upd' = [upd EXCEPT ![r].pc = "done"]
    /\ UNCHANGED <<req, backendLog, clipboardMsgs, clipboard, popup, rendered,
                   userDeleted, modal>>
    /\ UNCHANGED <<ovlVars, apiVars>>
    /\ UNCHANGED outsideExt

\* A deactivateOverlay that takes the element out and leaves the listeners
\* and isSelecting as they are
DeactivateOverlayElementOnly ==
    IF ~overlayActive
    THEN UNCHANGED <<overlayActive, selectionOverlay, isSelecting, docListeners>>
    ELSE /\ selectionOverlay' = FALSE
         /\ overlayActive' = FALSE
         /\ UNCHANGED <<isSelecting, docListeners>>

\* deactivateOverlay()
DeactivateOverlay ==
    IF ~overlayActive
    THEN UNCHANGED <<overlayActive, selectionOverlay, isSelecting, docListeners>>
    ELSE /\ selectionOverlay' = FALSE
         /\ docListeners' = docListeners \ OverlayListeners
         /\ overlayActive' = FALSE
         /\ isSelecting' = FALSE

\* sendToBackend's response callback: deactivateOverlay(), then on success
\* resultModal.show(response, onRetry) puts up a fresh modal, with the retry
\* button unless the result's mode is 'quality'; on failure only a toast is
\* shown
DeliverResponse ==
    /\ \E r \in Requests :
          /\ req[r].pc = "responded"
          /\ req' = [req EXCEPT ![r].pc = "delivered"]
          /\ modal' = IF req[r].origin # "other" /\ req[r].response.success
                      THEN [shown |-> TRUE, req |-> r, mode |-> req[r].response.mode,
                            retry |-> req[r].response.mode # "quality",
                            loading |-> FALSE]
                      ELSE modal
          /\ IF req[r].origin # "other"
             THEN DeactivateOverlay
             ELSE UNCHANGED <<overlayActive, selectionOverlay, isSelecting, docListeners>>
    /\ UNCHANGED <<backendLog, clipboardMsgs, clipboard, history, latestResult, upd,
                   popup, rendered, userDeleted>>
    /\ UNCHANGED <<sel, key, apiVars>>
    /\ UNCHANGED outsideExt

-----------------------------------------------------------------------------
(* The content script: overlay, keys and mouse *)

\* activateOverlay(); hasVideo is whether findVideo() finds a video element
ActivateOverlay(hasVideo) ==
    IF overlayActive \/ ~hasVideo
    THEN UNCHANGED <<overlayActive, selectionOverlay, isSelecting, docListeners>>
    ELSE /\ selectionOverlay' = TRUE
         /\ docListeners' = docListeners \cup OverlayListeners
         /\ overlayActive' = TRUE
         /\ UNCHANGED isSelecting

\* A keydown event k reaches the document: the hotkey listener (capture phase)
\* acts on Alt+Shift+S only, and onKeyDown, if activateOverlay registered it,
\* acts on Escape only
KeyDown(k) ==
    /\ key.count < MaxKeys
    /\ key' = [last |-> k, count |-> key.count + 1]
    /\ IF k = "Alt+Shift+S" /\ ~overlayActive
       THEN /\ \E hasVideo \in BOOLEAN : ActivateOverlay(hasVideo)
            /\ UNCHANGED sel
       ELSE IF k = "Escape" /\ "keydown" \in docListeners
       THEN /\ DeactivateOverlay
            /\ sel' = [sel EXCEPT !.cancelled =
                           IF overlayActive /\ isSelecting THEN @ \cup {sel.current} ELSE @]
       ELSE UNCHANGED <<overlayActive, selectionOverlay, isSelecting, docListeners, sel>>
    /\ UNCHANGED <<extVars, apiVars>>
    /\ UNCHANGED outsideExt

PressAltShiftS == KeyDown("Alt+Shift+S")

PressEscape == KeyDown("Escape")

PressAltShiftD == KeyDown("Alt+Shift+D")

\* onMouseDown, the listener of the overlay element: a selection begins
MouseDown ==
    /\ selectionOverlay
    /\ sel.count < MaxSelections
    /\ isSelecting' = TRUE
    /\ sel' = [sel EXCEPT !.current = sel.count + 1, !.count = sel.count + 1]
    /\ UNCHANGED <<overlayActive, selectionOverlay, docListeners, key>>
    /\ UNCHANGED <<extVars, apiVars>>
    /\ UNCHANGED outsideExt

\* what onMouseUp comes to: the box is under 20 px, or captureFrame runs up
\* to canvas.toBlob, or captureFrame throws and shows the error
MouseUpOutcomes == {"small", "captured", "error"}

\* onMouseUp, a document listener: the selection ends
MouseUp ==
    /\ "mouseup" \in docListeners
    /\ isSelecting
    /\ isSelecting' = FALSE
    /\ \E what \in MouseUpOutcomes :
          sel' = [sel EXCEPT !.capturing =
                     IF what = "captured" THEN @ \cup {sel.current} ELSE @]
    /\ UNCHANGED <<overlayActive, selectionOverlay, docListeners, key>>
    /\ UNCHANGED <<extVars, apiVars>>
    /\ UNCHANGED outsideExt

\* what the toBlob callback comes to: sendToBackend sends the ocr_request,
\* or there is no blob, or the extension context is gone
BlobOutcomes == {"sent", "noBlob", "invalidated"}

\* The callback of canvas.toBlob for selection s, and sendToBackend(blob)
BlobReady ==
    /\ \E s \in sel.capturing : \E what \in BlobOutcomes :
          IF what = "sent"
          THEN /\ \E r \in Requests :
                     /\ SendRequest(r, "capture", "fast")
                     /\ sel' = [sel EXCEPT !.capturing = @ \ {s},
                                           !.sent = @ \cup {<<s, r>>}]
               /\ UNCHANGED <<overlayActive, selectionOverlay, isSelecting, docListeners>>
          ELSE /\ DeactivateOverlay
               /\ sel' = [sel EXCEPT !.capturing = @ \ {s}]
               /\ UNCHANGED <<req, backendLog>>
    /\ UNCHANGED <<clipboardMsgs, clipboard, history, latestResult, upd, popup,
                   rendered, userDeleted, modal>>
    /\ UNCHANGED <<key, apiVars>>
    /\ UNCHANGED outsideExt

ContentScript ==
    \/ PressAltShiftS
    \/ PressEscape
    \/ PressAltShiftD
    \/ MouseDown
    \/ MouseUp
    \/ BlobReady

-----------------------------------------------------------------------------
(* background.js: API_URL, its startup load and the health check *)

\* chrome.storage.local.get(['apiUrl'], ...) issued at startup is served
ApiLoadRead ==
    /\ api.load = "get"
    /\ api' = [api EXCEPT !.load = "callback", !.loaded = api.stored]
    /\ UNCHANGED <<extVars, ovlVars>>
    /\ UNCHANGED outsideExt

\* its callback: if (result.apiUrl) API_URL = result.apiUrl
ApiLoadApply ==
    /\ api.load = "callback"
    /\ api' = [api EXCEPT !.load = "done",
                          !.url = IF api.loaded # "" THEN api.loaded ELSE @]
    /\ UNCHANGED <<extVars, ovlVars>>
    /\ UNCHANGED outsideExt

\* The listener's set_api_url branch: API_URL = message.url, and
\* chrome.storage.local.set({ apiUrl: API_URL }) is asked for
SetApiUrl ==
    /\ api.sets < MaxApiSets
    /\ \E url \in ApiUrls :
          api' = [api EXCEPT !.url = url, !.writes = Append(@, url), !.sets = @ + 1]
    /\ UNCHANGED <<extVars, ovlVars>>
    /\ UNCHANGED outsideExt

\* the oldest pending set of apiUrl is applied
ApiStoreSet ==
    /\ api.writes # <<>>
    /\ api' = [api EXCEPT !.stored = Head(api.writes), !.writes = Tail(@)]
    /\ UNCHANGED <<extVars, ovlVars>>
    /\ UNCHANGED outsideExt

\* checkBackendHealth, run by the 2 s timer: fetch(`${API_URL}/health`)
HealthCheck ==
    /\ ~api.health
    /\ api' = [api EXCEPT !.health = TRUE]
    /\ backendLog' = Append(backendLog,
                            [req |-> 0, method |-> "GET", url |-> api.url,
                             path |-> "/health"])
    /\ UNCHANGED <<req, clipboardMsgs, clipboard, history, latestResult, upd, popup,
                   rendered, userDeleted, modal>>
    /\ UNCHANGED ovlVars
    /\ UNCHANGED outsideExt

ApiActions ==
    \/ ApiLoadRead
    \/ ApiLoadApply
    \/ SetApiUrl
    \/ ApiStoreSet
    \/ HealthCheck

-----------------------------------------------------------------------------
(* popup.js: the history tab *)

\* history.splice(index, 1)
Splice(h, index) ==
    IF index + 1 \in 1..Len(h)
    THEN SubSeq(h, 1, index) \o SubSeq(h, index + 2, Len(h))
    ELSE h

\* the rows whose Delete button the model clicks: the first two and the last
ClickRows(n) == {1, 2, n} \cap (1..n)

\* loadHistory on opening the history tab or on a storage change
LoadHistory ==
    /\ rendered' = history
    /\ rendered # history
    /\ UNCHANGED <<req, backendLog, clipboardMsgs, clipboard, history, latestResult,
                   upd, popup, userDeleted, modal>>
    /\ UNCHANGED <<ovlVars, apiVars>>
    /\ UNCHANGED outsideExt

\* Delete is clicked on a row: deleteHistoryItem(index) asks for the history
ClickDelete ==
    /\ popup.pc = "idle"
    /\ popup.ops < MaxPopupOps
    /\ \E i \in ClickRows(Len(rendered)) :
          popup' = [popup EXCEPT !.pc = "delGet", !.index = i - 1,
                                 !.clicked = rendered[i].id, !.ops = @ + 1]
    /\ UNCHANGED <<req, backendLog, clipboardMsgs, clipboard, history, latestResult,
                   upd, rendered, userDeleted, modal>>
    /\ UNCHANGED <<ovlVars, apiVars>>
    /\ UNCHANGED outsideExt

\* deleteHistoryItem: the get reads the history, the callback splices the
\* index out and asks for the set
DeleteGet ==
    /\ popup.pc = "delGet"
    /\ popup' = [popup EXCEPT
                    !.pc = "delSet",
                    !.value = Splice(history, popup.index),
                    !.removed = IF popup.index + 1 \in 1..Len(history)
                                THEN {history[popup.index + 1].id} ELSE {}]
    /\ UNCHANGED <<req, backendLog, clipboardMsgs, clipboard, history, latestResult,
                   upd, rendered, userDeleted, modal>>
    /\ UNCHANGED <<ovlVars, apiVars>>
    /\ UNCHANGED outsideExt

\* deleteHistoryItem: the set is applied; its callback calls loadHistory
DeleteSet ==
    /\ popup.pc = "delSet"
    /\ history' = popup.value
    /\ userDeleted' = userDeleted \cup popup.removed
    /\ popup' = [popup EXCEPT !.pc = "reload", !.clicked = 0, !.value = <<>>,
                               !.removed = {}]
    /\ UNCHANGED <<req, backendLog, clipboardMsgs, clipboard, latestResult, upd,
                   rendered, modal>>
    /\ UNCHANGED <<ovlVars, apiVars>>
    /\ UNCHANGED outsideExt

\* clearHistory, confirmed: chrome.storage.local.set({ history: [] }) is asked for
ClickClear ==
    /\ popup.pc = "idle"
    /\ popup.ops < MaxPopupOps
    /\ popup' = [popup EXCEPT !.pc = "clearSet", !.ops = @ + 1]
    /\ UNCHANGED <<req, backendLog, clipboardMsgs, clipboard, history, latestResult,
                   upd, rendered, userDeleted, modal>>
    /\ UNCHANGED <<ovlVars, apiVars>>
    /\ UNCHANGED outsideExt

\* clearHistory: the set is applied; its callback calls loadHistory
ClearSet ==
    /\ popup.pc = "clearSet"
    /\ history' = <<>>
    /\ userDeleted' = userDeleted \cup { history[i].id : i \in 1..Len(history) }
    /\ popup' = [popup EXCEPT !.pc = "reload"]
    /\ UNCHANGED <<req, backendLog, clipboardMsgs, clipboard, latestResult, upd,
                   rendered, modal>>
    /\ UNCHANGED <<ovlVars, apiVars>>
    /\ UNCHANGED outsideExt

\* the loadHistory that follows a deletion or clearing shows the stored list
Reload ==
    /\ popup.pc = "reload"
    /\ rendered' = history
    /\ popup' = [popup EXCEPT !.pc = "idle"]
    /\ UNCHANGED <<req, backendLog, clipboardMsgs, clipboard, history, latestResult,
                   upd, userDeleted, modal>>
    /\ UNCHANGED <<ovlVars, apiVars>>
    /\ UNCHANGED outsideExt

\* what the worker does with a request once it is posted
Pipeline ==
    \/ FetchFails
    \/ FetchNotOk
    \/ FetchOk
    \/ TabsQueried
    \/ ClipboardSettled
    \/ StorageGet
    \/ StorageSet
    \/ DeliverResponse

PopupActions ==
    \/ LoadHistory
    \/ ClickDelete
    \/ DeleteGet
    \/ DeleteSet
    \/ ClickClear
    \/ ClearSet
    \/ Reload

Next ==
    \/ Capture
    \/ RetryClick
    \/ OtherRequest
    \/ Pipeline
    \/ PopupActions

Spec == Init /\ [][Next]_vars

\* The message flow alone: the popup stays closed, the history starts empty
InitFlow == OcrIdle /\ ExtInit(0) /\ BackendIdle

NextFlow ==
    \/ Capture
    \/ RetryClick
    \/ OtherRequest
    \/ Pipeline

SpecFlow == InitFlow /\ [][NextFlow]_vars

\* Captures alone: every request comes from a finished selection
NextCapture ==
    \/ Capture
    \/ Pipeline

SpecCapture == InitFlow /\ [][NextCapture]_vars

\* The overlay: keys and mouse on the page and the requests of the selections
\* made, with a backend that is down or answers with an error (the response
\* callback deactivates the overlay before it looks at response.success)
NextOverlay ==
    \/ ContentScript
    \/ FetchFails
    \/ FetchNotOk
    \/ DeliverResponse

SpecOverlay == InitFlow /\ [][NextOverlay]_vars

\* The worker from its start, with an apiUrl stored or none, captures and a
\* backend that is down or answers with an error
InitApi ==
    /\ OcrIdle
    /\ ExtCore(0)
    /\ BackendIdle
    /\ OverlayIdle
    /\ \E stored \in {""} \cup ApiUrls : api = ApiStart(stored)

NextApi ==
    \/ ApiActions
    \/ Capture
    \/ FetchFails
    \/ FetchNotOk
    \/ DeliverResponse

SpecApi == InitApi /\ [][NextApi]_vars

\* The stored history alone: captures only, with the popup's history tab in use
NextHistory ==
    \/ Capture
    \/ Pipeline
    \/ PopupActions

SpecHistory == Init /\ [][NextHistory]_vars

-----------------------------------------------------------------------------
(* ocr_engine.py: the four recognizer operations *)

ConfFloor == 50

HighFloor == 80

MediumFloor == 60

\* pytesseract.image_to_string(pil_img, lang='eng', config=config)
ImageToString ==
    IF engineAvailable THEN [ok |-> TRUE, text |-> engineText] ELSE [ok |-> FALSE]

\* pytesseract.image_to_data(pil_img, ..., output_type=Output.DICT)
ImageToData ==
    IF engineAvailable THEN [ok |-> TRUE, data |-> data] ELSE [ok |-> FALSE]

\* A filter without the confidence floor
KeepTokenAnyConf(conf, text) == text # <<>>

\* A filter with the floor at the medium boundary
KeepTokenAboveMedium(conf, text) == conf > MediumFloor /\ text # <<>>

\* if conf > 50 and text:
KeepToken(conf, text) == conf > ConfFloor /\ text # <<>>

RECURSIVE WordsFrom(_, _)
\* the loop over range(len(data['text'])), from row i on
WordsFrom(d, i) ==
    IF i > Len(d.text) THEN <<>>
    ELSE LET conf == PyInt(d.conf[i])
             text == Strip(d.text[i])
         IN  (IF KeepToken(conf, text)
              THEN << [text |-> text, confidence |-> conf,
                       box |-> [x |-> d.left[i], y |-> d.top[i],
                                width |-> d.width[i], height |-> d.height[i]]] >>
              ELSE <<>>) \o WordsFrom(d, i + 1)

IsHigh(w) == w.confidence > HighFloor

\* A medium bucket that takes the lower boundary in
IsMediumInclusive(w) == MediumFloor <= w.confidence /\ w.confidence <= HighFloor

\* 60 < w['confidence'] <= 80
IsMedium(w) == MediumFloor < w.confidence /\ w.confidence <= HighFloor

IsLow(w) == w.confidence <= MediumFloor

\* the dict extract_text_with_confidence builds from the engine's rows
ConfidenceResult(d) ==
    LET words == WordsFrom(d, 1)
    IN  [text |-> JoinTexts(words),
         confidence |-> IF words # <<>> THEN Round2(SumConf(words), Len(words)) ELSE 0,
         words |-> words,
         word_count |-> Len(words),
         quality_metrics |->
            [high_confidence_words |-> Len(SelectSeq(words, IsHigh)),
             medium_confidence_words |-> Len(SelectSeq(words, IsMedium)),
             low_confidence_words |-> Len(SelectSeq(words, IsLow))]]

\* return text.rstrip() written as text.strip()
CodeTextStripped(text) == Strip(text)

\* return text.rstrip()
CodeText(text) == RStrip(text)

\* An operation that catches the engine's error and returns empty text
SwallowEngineError(op, call, value) ==
    IF call.ok THEN Return(op, value) ELSE Return(op, <<>>)

\* The operations have no try/except around the pytesseract call: its error
\* leaves the function, and the code after the call does not run
Propagate(op, call, value) ==
    IF call.ok THEN Return(op, value) ELSE Raise(op)

extract_text_fast(call) ==
    Propagate("extract_text_fast", call, IF call.ok THEN Strip(call.text) ELSE <<>>)

extract_text_accurate(call) ==
    Propagate("extract_text_accurate", call, IF call.ok THEN Strip(call.text) ELSE <<>>)

extract_text_with_confidence(call) ==
    Propagate("extract_text_with_confidence", call,
              IF call.ok THEN ConfidenceResult(call.data) ELSE <<>>)

extract_code(call) ==
    Propagate("extract_code", call, IF call.ok THEN CodeText(call.text) ELSE <<>>)

CallExtractTextFast ==
    /\ outcome = NoOutcome
    /\ engineCalls' = engineCalls + 1
    /\ outcome' = extract_text_fast(ImageToString)
    /\ UNCHANGED <<engineAvailable, engineText, data>>
    /\ UNCHANGED outsideOcr

CallExtractTextAccurate ==
    /\ outcome = NoOutcome
    /\ engineCalls' = engineCalls + 1
    /\ outcome' = extract_text_accurate(ImageToString)
    /\ UNCHANGED <<engineAvailable, engineText, data>>
    /\ UNCHANGED outsideOcr

CallExtractTextWithConfidence ==
    /\ outcome = NoOutcome
    /\ engineCalls' = engineCalls + 1
    /\ outcome' = extract_text_with_confidence(ImageToData)
    /\ UNCHANGED <<engineAvailable, engineText, data>>
    /\ UNCHANGED outsideOcr

CallExtractCode ==
    /\ outcome = NoOutcome
    /\ engineCalls' = engineCalls + 1
    /\ outcome' = extract_code(ImageToString)
    /\ UNCHANGED <<engineAvailable, engineText, data>>
    /\ UNCHANGED outsideOcr

\* extract_text_with_confidence on every engine output, engine installed
InitConf ==
    /\ engineAvailable = TRUE
    /\ engineText = <<>>
    /\ \E n \in 0..MaxTokens : \E t \in [1..n -> TokenTexts], c \in [1..n -> RawConfs] :
          data = EngineDataOf(n, t, c)
    /\ outcome = NoOutcome
    /\ engineCalls = 0
    /\ ExtInit(0)
    /\ BackendIdle

NextConf == CallExtractTextWithConfidence

SpecConf == InitConf /\ [][NextConf]_vars

\* the four operations on every engine text, engine installed or missing
InitText ==
    /\ engineAvailable \in BOOLEAN
    /\ engineText \in EngineTexts
    /\ \E c \in {500, 810} : data = EngineDataOf(1, <<<<" ", "a">>>>, <<c>>)
    /\ outcome = NoOutcome
    /\ engineCalls = 0
    /\ ExtInit(0)
    /\ BackendIdle

NextText ==
    \/ CallExtractTextFast
    \/ CallExtractTextAccurate
    \/ CallExtractTextWithConfidence
    \/ CallExtractCode

SpecText == InitText /\ [][NextText]_vars

-----------------------------------------------------------------------------
(* ocr_engine.py: get_tesseract_version and test_tesseract_installation *)

Versions == {<<4, 1, 1>>, <<5, 3, 0>>}

LangNames == {"eng", "osd", "deu"}

RECURSIVE LangLists(_)
\* the lists of language names of length n or less
LangLists(n) ==
    IF n = 0 THEN {<<>>}
    ELSE LET shorter == LangLists(n - 1)
         IN  shorter \cup { Append(l, name) : l \in { k \in shorter : Len(k) = n - 1 },
                                              name \in LangNames }

\* str() of a number from 0 to 9
DigitStr(d) == <<"0", "1", "2", "3", "4", "5", "6", "7", "8", "9">>[d + 1]

\* str(version) of major.minor.patch
VersionStr(v) == <<DigitStr(v[1]), ".", DigitStr(v[2]), ".", DigitStr(v[3])>>

\* str(e) of TesseractNotFoundError
NotFoundText == "tesseract is not installed or it's not in your PATH"

\* pytesseract.get_tesseract_version()
GetTesseractVersion ==
    IF engineAvailable THEN [ok |-> TRUE, value |-> version]
    ELSE [ok |-> FALSE, error |-> NotFoundText]

\* pytesseract.get_languages()
GetLanguages ==
    IF engineAvailable /\ ~langsFail THEN [ok |-> TRUE, value |-> languages]
    ELSE [ok |-> FALSE, error |-> NotFoundText]

\* 'eng' in langs
Contains(l, name) == \E i \in 1..Len(l) : l[i] = name

\* A function without the try/except: the error of the call leaves it
LetErrorThrough(op, ok, value, handled) ==
    IF ok THEN Return(op, value) ELSE Raise(op)

\* try: ... return value / except Exception as e: return handled
CatchAll(op, ok, value, handled) ==
    IF ok THEN Return(op, value) ELSE Return(op, handled)

\* get_tesseract_version(): str(version), or "Error: " followed by str(e)
get_tesseract_version ==
    LET v == GetTesseractVersion
    IN  CatchAll("get_tesseract_version", v.ok,
                 IF v.ok THEN VersionStr(v.value) ELSE <<>>,
                 IF v.ok THEN <<>> ELSE <<"Error: ", v.error>>)

\* test_tesseract_installation(): both calls are inside the try; the second
\* is not made when the first raises
test_tesseract_installation ==
    LET v == GetTesseractVersion
        l == GetLanguages
        ok == v.ok /\ l.ok
    IN  CatchAll("test_tesseract_installation", ok,
                 IF ok THEN [status |-> "ok", version |-> VersionStr(v.value),
                             languages |-> l.value,
                             eng_available |-> Contains(l.value, "eng")]
                 ELSE <<>>,
                 IF ok THEN <<>>
                 ELSE [status |-> "error",
                       error |-> IF v.ok THEN l.error ELSE v.error,
                       message |-> "Tesseract not installed or not in PATH"])

CallGetTesseractVersion ==
    /\ outcome = NoOutcome
    /\ engineCalls' = engineCalls + 1
    /\ outcome' = get_tesseract_version
    /\ UNCHANGED <<engineAvailable, engineText, data>>
    /\ UNCHANGED outsideOcr

CallTestTesseractInstallation ==
    /\ outcome = NoOutcome
    /\ engineCalls' = engineCalls + (IF GetTesseractVersion.ok THEN 2 ELSE 1)
    /\ outcome' = test_tesseract_installation
    /\ UNCHANGED <<engineAvailable, engineText, data>>
    /\ UNCHANGED outsideOcr

\* the readiness check with the engine installed or missing, with every list
\* of languages
InitReady ==
    /\ engineAvailable \in BOOLEAN
    /\ engineText = <<>>
    /\ data = EngineDataOf(0, <<>>, <<>>)
    /\ outcome = NoOutcome
    /\ engineCalls = 0
    /\ ExtInit(0)
    /\ PixIdle
    /\ WsStart(0)
    /\ SideIdle
    /\ version \in Versions
    /\ languages \in LangLists(MaxLangs)
    /\ langsFail \in BOOLEAN

NextReady ==
    \/ CallGetTesseractVersion
    \/ CallTestTesseractInstallation

SpecReady == InitReady /\ [][NextReady]_vars

-----------------------------------------------------------------------------
(* The WebSocket sketch: OCRWebSocket, websocket_endpoint and ocr_worker *)

\* ocr_queue.qsize()
QSize(q) == q.backlog + Len(q.tasks)

\* A test that lets a request in when the queue holds 100 tasks
HasRoomInclusive(q) == QSize(q) <= 100

\* if ocr_queue.qsize() < 100:
HasRoom(q) == QSize(q) < 100

\* The text extract_text_fast finds in an image: the images of the model are
\* told apart by who sent them under which id, and so are their texts
TextOf(image) == image

SuccessResult(task) ==
    [request_id |-> task.request_id, text |-> TextOf(task.image), status |-> "success"]

ErrorResult(id, error) == [request_id |-> id, error |-> error, status |-> "error"]

\* sendOCRRequest: const id = this.requestId++; the request goes out on the
\* socket and waits there for the handler's next receive_text
ClientSend ==
    /\ \E c \in Conns :
          /\ conn[c].nextId < MaxWsRequests
          /\ conn' = [conn EXCEPT
                         ![c].inbox = Append(@, [request_id |-> conn[c].nextId,
                                                 type |-> "OCR",
                                                 image |-> <<c, conn[c].nextId>>]),
                         ![c].nextId = @ + 1]
    /\ UNCHANGED <<ocr_queue, results, busy>>
    /\ UNCHANGED <<ocrVars, extVars, ovlVars, apiVars, pixVars, infoVars, sideVars>>

\* websocket_endpoint from receive_text to its next await: with room in the
\* queue the task is put (a put on a full queue blocks) and the handler starts
\* to wait for the result; without, it answers 'Queue full, try again'
HandlerReceive ==
    /\ \E c \in Conns :
          /\ conn[c].pc = "receive"
          /\ conn[c].inbox # <<>>
          /\ LET request == Head(conn[c].inbox)
                 task == [request_id |-> request.request_id, image |-> request.image]
             IN  IF HasRoom(ocr_queue)
                 THEN IF QSize(ocr_queue) < QueueMaxsize
                      THEN /\ ocr_queue' = [ocr_queue EXCEPT !.tasks = Append(@, task)]
                           /\ conn' = [conn EXCEPT ![c].inbox = Tail(@),
                                                   ![c].request_id = request.request_id,
                                                   ![c].pc = "waiting"]
                      ELSE /\ conn' = [conn EXCEPT ![c].inbox = Tail(@),
                                                   ![c].request_id = request.request_id,
                                                   ![c].pc = "blocked"]
                           /\ UNCHANGED ocr_queue
                 ELSE /\ conn' = [conn EXCEPT
                                     ![c].inbox = Tail(@),
                                     ![c].request_id = request.request_id,
                                     ![c].sent = Append(@, ErrorResult(request.request_id,
                                                                       "Queue full, try again"))]
                      /\ UNCHANGED ocr_queue
    /\ UNCHANGED <<results, busy>>
    /\ UNCHANGED <<ocrVars, extVars, ovlVars, apiVars, pixVars, infoVars, sideVars>>

\* The wait loop finds request_id in results: results.pop(request_id) is sent
HandlerResult ==
    /\ \E c \in Conns :
          /\ conn[c].pc = "waiting"
          /\ results[conn[c].request_id] # NoWsResult
          /\ conn' = [conn EXCEPT ![c].sent = Append(@, results[conn[c].request_id]),
                                  ![c].pc = "receive"]
          /\ results' = [results EXCEPT ![conn[c].request_id] = NoWsResult]
    /\ UNCHANGED <<ocr_queue, busy>>
    /\ UNCHANGED <<ocrVars, extVars, ovlVars, apiVars, pixVars, infoVars, sideVars>>

\* The wait loop runs out (elapsed >= timeout) with request_id not in results
HandlerTimeout ==
    /\ \E c \in Conns :
          /\ conn[c].pc = "waiting"
          /\ results[conn[c].request_id] = NoWsResult
          /\ conn' = [conn EXCEPT ![c].sent = Append(@, ErrorResult(conn[c].request_id,
                                                                    "Timeout")),
                                  ![c].pc = "receive"]
    /\ UNCHANGED <<ocr_queue, results, busy>>
    /\ UNCHANGED <<ocrVars, extVars, ovlVars, apiVars, pixVars, infoVars, sideVars>>

\* ocr_worker: task = ocr_queue.get() by a worker that has no task
WorkerGet ==
    /\ busy.old + Cardinality(busy.tasks) < NUM_WORKERS
    /\ QSize(ocr_queue) > 0
    /\ IF ocr_queue.backlog > 0
       THEN /\ ocr_queue' = [ocr_queue EXCEPT !.backlog = @ - 1]
            /\ busy' = [busy EXCEPT !.old = @ + 1]
       ELSE /\ ocr_queue' = [ocr_queue EXCEPT !.tasks = Tail(@)]
            /\ busy' = [busy EXCEPT !.tasks = @ \cup {Head(ocr_queue.tasks)}]
    /\ UNCHANGED <<results, conn>>
    /\ UNCHANGED <<ocrVars, extVars, ovlVars, apiVars, pixVars, infoVars, sideVars>>

\* ocr_worker: the task is processed and results[request_id] is set, to the
\* text or to the error of the processing
WorkerDone ==
    /\ \E task \in busy.tasks : \E ok \in BOOLEAN :
          /\ results' = [results EXCEPT ![task.request_id] =
                             IF ok THEN SuccessResult(task)
                             ELSE ErrorResult(task.request_id, "processing failed")]
          /\ busy' = [busy EXCEPT !.tasks = @ \ {task}]
    /\ UNCHANGED <<ocr_queue, conn>>
    /\ UNCHANGED <<ocrVars, extVars, ovlVars, apiVars, pixVars, infoVars, sideVars>>

\* ocr_worker: a task of an earlier client is processed (the model lets
\* MaxOldDone of them finish)
WorkerDoneOld ==
    /\ busy.old > 0
    /\ busy.oldDone < MaxOldDone
    /\ results' = [results EXCEPT ![OldId] =
                       SuccessResult([request_id |-> OldId, image |-> <<0, OldId>>])]
    /\ busy' = [busy EXCEPT !.old = @ - 1, !.oldDone = @ + 1]
    /\ UNCHANGED <<ocr_queue, conn>>
    /\ UNCHANGED <<ocrVars, extVars, ovlVars, apiVars, pixVars, infoVars, sideVars>>

\* The server with an empty, an almost full or a full queue
InitWs ==
    /\ OcrIdle
    /\ ExtInit(0)
    /\ PixIdle
    /\ InfoDefault
    /\ \E n \in {0, QueueMaxsize - 1, QueueMaxsize} : WsStart(n)
    /\ SideIdle

NextWs ==
    \/ ClientSend
    \/ HandlerReceive
    \/ HandlerResult
    \/ HandlerTimeout
    \/ WorkerGet
    \/ WorkerDone
    \/ WorkerDoneOld

SpecWs == InitWs /\ [][NextWs]_vars

\* The server under load: the queue starts full or one short of it, and the
\* tasks of the earlier clients keep the workers busy, so that no task put by
\* a connection of the model is reached and every accepted request times out
InitQueue ==
    /\ OcrIdle
    /\ ExtInit(0)
    /\ PixIdle
    /\ InfoDefault
    /\ \E n \in {QueueMaxsize - 1, QueueMaxsize} : WsStart(n)
    /\ SideIdle

NextQueue ==
    \/ ClientSend
    \/ HandlerReceive
    \/ HandlerTimeout
    \/ WorkerGet
    \/ WorkerDoneOld

SpecQueue == InitQueue /\ [][NextQueue]_vars

-----------------------------------------------------------------------------
(* The continuous monitoring sketch: ContinuousMonitor *)

\* the 8x8 picture has 64 pixels
HashBits == 64

\* The frames the video shows, as drawImage scales them down to 8x8: a frame
\* is the number of its pixels that are white, the first ones in reading
\* order, the others being black
Frames == {0, 9, 10, 19, 20, HashBits}

Pixel(frame, i) == IF i <= frame THEN White ELSE 0

RECURSIVE SumPixels(_, _)
SumPixels(frame, n) == IF n = 0 THEN 0 ELSE SumPixels(frame, n - 1) + Pixel(frame, n)

\* perceptualHash: '1' where the pixel is above the average sum / 64
perceptualHash(frame) ==
    LET sum == SumPixels(frame, HashBits)
    IN  [i \in 1..HashBits |-> IF Pixel(frame, i) * HashBits > sum THEN 1 ELSE 0]

\* hammingDistance: same / hash1.length, kept as the fraction <<same, length>>
hammingDistance(hash1, hash2) ==
    <<Cardinality({i \in 1..Len(hash1) : hash1[i] = hash2[i]}), Len(hash1)>>

\* similarity < 0.85
BelowThreshold(similarity) == similarity[1] * 100 < 85 * similarity[2]

sendToOCR(m, frame) == [m EXCEPT !.sent = Append(@, frame)]

\* A checkFrame that remembers the hash of every frame, sent or not
checkFrameRemembersAll(m, frame) ==
    LET hash == perceptualHash(frame)
        seen == [m EXCEPT !.frames = Append(@, frame)]
    IN  IF m.previousHash = NoHash
        THEN sendToOCR([seen EXCEPT !.previousHash = hash], frame)
        ELSE IF BelowThreshold(hammingDistance(hash, m.previousHash))
             THEN sendToOCR([seen EXCEPT !.previousHash = hash], frame)
             ELSE [seen EXCEPT !.previousHash = hash]

\* checkFrame: the first frame is sent; a later one is sent, and its hash
\* remembered, when it is less than 0.85 similar to previousHash
checkFrame(m, frame) ==
    LET hash == perceptualHash(frame)
        seen == [m EXCEPT !.frames = Append(@, frame)]
    IN  IF m.previousHash = NoHash
        THEN sendToOCR([seen EXCEPT !.previousHash = hash], frame)
        ELSE IF BelowThreshold(hammingDistance(hash, m.previousHash))
             THEN sendToOCR([seen EXCEPT !.previousHash = hash], frame)
             ELSE seen

\* start(): isRunning = true and the interval is set
MonitorStart ==
    /\ ~monitor.isRunning
    /\ monitor' = [monitor EXCEPT !.isRunning = TRUE]
    /\ UNCHANGED <<ocrVars, extVars, ovlVars, apiVars, pixVars, infoVars, wsVars,
                   connection>>

\* stop(): isRunning = false and the interval is cleared
MonitorStop ==
    /\ monitor.isRunning
    /\ monitor' = [monitor EXCEPT !.isRunning = FALSE]
    /\ UNCHANGED <<ocrVars, extVars, ovlVars, apiVars, pixVars, infoVars, wsVars,
                   connection>>

\* The interval fires: checkFrame captures what the video shows
MonitorTick ==
    /\ monitor.isRunning
    /\ Len(monitor.frames) < MaxChecks
    /\ \E frame \in Frames : monitor' = checkFrame(monitor, frame)
    /\ UNCHANGED <<ocrVars, extVars, ovlVars, apiVars, pixVars, infoVars, wsVars,
                   connection>>

InitMonitor ==
    /\ OcrIdle
    /\ ExtInit(0)
    /\ BackendIdle

NextMonitor ==
    \/ MonitorStart
    \/ MonitorStop
    \/ MonitorTick

SpecMonitor == InitMonitor /\ [][NextMonitor]_vars

-----------------------------------------------------------------------------
(* popup.js: checkConnection *)

\* How the fetch of /health settles: a response that is OK or not, a network
\* error, or the abort of AbortSignal.timeout(5000)
FetchOutcomes == {"ok", "notOk", "networkError", "timeout"}

\* What response.json() gives for an OK response: a body whose tesseract
\* field has status 'ok' or 'error', a body without that field (the health
\* endpoint of the speed-optimized main.py), or a rejection (no JSON)
NoTesseract == [status |-> "absent"]

HealthBodies ==
    { [parsed |-> TRUE, status |-> "healthy", tesseract |-> [status |-> "ok"]],
      [parsed |-> TRUE, status |-> "healthy", tesseract |-> [status |-> "error"]],
      [parsed |-> TRUE, status |-> "ok", tesseract |-> NoTesseract],
      [parsed |-> FALSE, status |-> "", tesseract |-> NoTesseract] }

NoBody == [parsed |-> FALSE, status |-> "", tesseract |-> NoTesseract]

\* A status that is 'Connected' for every OK response with a JSON body
StatusWithoutEngineCheck(settled, health) ==
    IF settled = "ok" /\ health.parsed
    THEN "Connected"
    ELSE "Disconnected"

\* The text checkConnection puts into connectionStatus once the request has
\* settled (the texts without their leading mark)
StatusText(settled, health) ==
    IF settled = "ok" /\ health.parsed
    THEN IF health.tesseract # NoTesseract /\ health.tesseract.status = "ok"
         THEN "Connected"
         ELSE "Connected (Tesseract not found)"
    ELSE "Disconnected"

\* checkConnection is called (by init's timer or after saveApiUrl): the
\* status becomes 'Checking...' and the fetch is started
CheckStart ==
    /\ Len(connection.calls) < MaxConnChecks
    /\ connection' = [status |-> "Checking...",
                      calls |-> Append(connection.calls,
                                       [pc |-> "fetch", outcome |-> "", health |-> NoBody])]
    /\ UNCHANGED <<ocrVars, extVars, ovlVars, apiVars, pixVars, infoVars, wsVars,
                   monitor>>

\* The fetch of a call settles: an OK response goes on to response.json(),
\* anything else ends in the catch
CheckFetchSettles ==
    /\ \E k \in 1..Len(connection.calls) : \E settled \in FetchOutcomes :
          /\ connection.calls[k].pc = "fetch"
          /\ connection' =
                IF settled = "ok"
                THEN [connection EXCEPT !.calls[k].pc = "json",
                                        !.calls[k].outcome = settled]
                ELSE [connection EXCEPT !.calls[k].pc = "done",
                                        !.calls[k].outcome = settled,
                                        !.status = StatusText(settled, NoBody)]
    /\ UNCHANGED <<ocrVars, extVars, ovlVars, apiVars, pixVars, infoVars, wsVars,
                   monitor>>

\* response.json() of a call settles
CheckJsonSettles ==
    /\ \E k \in 1..Len(connection.calls) : \E health \in HealthBodies :
          /\ connection.calls[k].pc = "json"
          /\ connection' = [connection EXCEPT
                               !.calls[k].pc = "done",
                               !.calls[k].health = health,
                               !.status = StatusText("ok", health)]
    /\ UNCHANGED <<ocrVars, extVars, ovlVars, apiVars, pixVars, infoVars, wsVars,
                   monitor>>

InitConn ==
    /\ OcrIdle
    /\ ExtInit(0)
    /\ BackendIdle

NextConn ==
    \/ CheckStart
    \/ CheckFetchSettles
    \/ CheckJsonSettles

SpecConn == InitConn /\ [][NextConn]_vars

-----------------------------------------------------------------------------
(* preprocessor.py (speed-optimized blueprint): preprocess_image_fast *)

\* the grey levels of the input images are multiples of this unit
GreyUnit == 85

Levels == {0, 85, 170, 255}

\* all (row, column) places of an image
Places(im) == (1..im.h) \X (1..im.w)

\* the number of pixels of value at most t, and the sum of their values (in
\* grey units)
CountUpTo(im, t) == Cardinality({ q \in Places(im) : im.px[q[1]][q[2]] <= t })

RECURSIVE SumRow(_, _, _)
SumRow(row, x, t) ==
    IF x = 0 THEN 0
    ELSE (IF row[x] <= t THEN row[x] \div GreyUnit ELSE 0) + SumRow(row, x - 1, t)

RECURSIVE SumUpTo(_, _, _)
SumUpTo(im, y, t) ==
    IF y = 0 THEN 0 ELSE SumRow(im.px[y], im.w, t) + SumUpTo(im, y - 1, t)

\* The between-class variance of threshold t as the fraction num / den, up to
\* the factor all thresholds share: q1 * q2 * (mu1 - mu2)^2 with
\* q1 = n1 / N, q2 = n2 / N, mu1 = s1 / n1, mu2 = s2 / n2
Sigma(im, t) ==
    LET n1 == CountUpTo(im, t)
        n2 == im.h * im.w - n1
        s1 == SumUpTo(im, im.h, t)
        s2 == SumUpTo(im, im.h, White) - s1
        a == s1 * n2 - s2 * n1
    IN  [num |-> a * a, den |-> n1 * n2]

RECURSIVE OtsuFrom(_, _, _)
\* The loop of the Otsu search from grey value t on, best being max_val and
\* max_sigma so far: a threshold with an empty class is skipped, a strictly
\* larger sigma replaces the best.  Between two levels of the image sigma
\* does not change, so only the levels are visited.
OtsuFrom(im, t, best) ==
    IF t > White THEN best.val
    ELSE LET sg == Sigma(im, t)
             better == sg.den > 0 /\ sg.num * best.den > best.num * sg.den
         IN  OtsuFrom(im, t + GreyUnit,
                      IF better THEN [val |-> t, num |-> sg.num, den |-> sg.den]
                      ELSE best)

\* the threshold cv2.threshold computes with THRESH_OTSU
OtsuThreshold(im) == OtsuFrom(im, 0, [val |-> 0, num |-> 0, den |-> 1])

\* A threshold step that hands the image on as it is
ThresholdSkipped(im) == im

\* _, thresh = cv2.threshold(img, 0, 255, THRESH_BINARY + THRESH_OTSU)
Threshold(im) ==
    LET t == OtsuThreshold(im)
    IN  [im EXCEPT !.px = [y \in 1..im.h |->
                              [x \in 1..im.w |-> IF im.px[y][x] > t THEN White ELSE 0]]]

\* BORDER_REFLECT_101, the default border of filter2D: gfedcb|abcdefgh|gfedcba
Reflect101(i, n) ==
    IF n = 1 THEN 1
    ELSE IF i < 1 THEN 2 - i
    ELSE IF i > n THEN 2 * n - i
    ELSE i

\* the pixel filter2D reads at (y, x), inside the image or beyond its border
At(im, y, x) == im.px[Reflect101(y, im.h)][Reflect101(x, im.w)]

\* kernel = [[-1,-1,-1],[-1, 9,-1],[-1,-1,-1]]
Kernel(dy, dx) == IF dy = 0 /\ dx = 0 THEN 9 ELSE -1

\* saturate_cast<uchar>
Saturate(v) == IF v < 0 THEN 0 ELSE IF v > White THEN White ELSE v

\* the kernel applied at (y, x)
Correlate(im, y, x) ==
      Kernel(-1, -1) * At(im, y - 1, x - 1) + Kernel(-1, 0) * At(im, y - 1, x)
    + Kernel(-1, 1) * At(im, y - 1, x + 1) + Kernel(0, -1) * At(im, y, x - 1)
    + Kernel(0, 0) * At(im, y, x) + Kernel(0, 1) * At(im, y, x + 1)
    + Kernel(1, -1) * At(im, y + 1, x - 1) + Kernel(1, 0) * At(im, y + 1, x)
    + Kernel(1, 1) * At(im, y + 1, x + 1)

\* sharpened = cv2.filter2D(thresh, -1, kernel)
Filter2D(im) ==
    [im EXCEPT !.px = [y \in 1..im.h |->
                          [x \in 1..im.w |-> Saturate(Correlate(im, y, x))]]]

preprocess_image_fast(im) == Filter2D(Threshold(im))

CallPreprocessFast ==
    /\ sharpened = NoImage
    /\ sharpened' = preprocess_image_fast(img)
    /\ UNCHANGED <<img, ocrVars, extVars, ovlVars, apiVars, infoVars, wsVars, sideVars>>

\* preprocess_image_fast on every decoded image of the sizes and levels modelled
InitPre ==
    /\ OcrIdle
    /\ ExtInit(0)
    /\ InfoDefault
    /\ WsStart(0)
    /\ SideIdle
    /\ \E h \in 1..MaxHeight, w \in 1..MaxWidth :
          \E px \in [1..h -> [1..w -> Levels]] : img = [h |-> h, w |-> w, px |-> px]
    /\ sharpened = NoImage

NextPre == CallPreprocessFast

SpecPre == InitPre /\ [][NextPre]_vars

-----------------------------------------------------------------------------
(* Properties of extract_text_with_confidence (checked under SpecConf) *)

ConfidenceReturned ==
    /\ outcome.op = "extract_text_with_confidence"
    /\ outcome.kind = "return"

Rows == 1..Len(data.text)

RECURSIVE TotalOf(_, _)
TotalOf(ws, k) == IF k = 0 THEN 0 ELSE ws[k].confidence + TotalOf(ws, k - 1)

Abs(x) == IF x < 0 THEN -x ELSE x

\* C1: every token in the returned 'words' has non-empty text and an integer
\* confidence of at least 50 and at most 100, whatever the engine reported.
C1_KeptTokensWithinFloor ==
    ConfidenceReturned =>
        \A j \in 1..Len(outcome.value.words) :
            LET w == outcome.value.words[j]
            IN  /\ w.text # <<>>
                /\ w.confidence \in Int
                /\ w.confidence >= 50
                /\ w.confidence <= 100

\* C1 witness: a result that kept two tokens and left out a third whose
\* confidence is below the floor although it has text.
C1_Witness ==
    /\ ConfidenceReturned
    /\ Len(outcome.value.words) = 2
    /\ \E i \in Rows : data.conf[i] < 500 /\ Strip(data.text[i]) # <<>>

\* C2 as stated: every engine token with text and a (whole-number) confidence
\* of 50 or more, exactly 50 included, is in the returned 'words'.
C2_Original ==
    ConfidenceReturned =>
        \A i \in Rows :
            (Strip(data.text[i]) # <<>> /\ data.conf[i] % 10 = 0 /\ data.conf[i] >= 500)
                => \E j \in 1..Len(outcome.value.words) :
                        outcome.value.words[j].box.x = data.left[i]

\* C2 amended: the returned 'words' are exactly the engine's tokens whose
\* stripped text is non-empty and whose integer confidence is strictly above
\* 50 (51 or more), in the engine's order, each with its stripped text and
\* its integer confidence; a token with confidence exactly 50 is left out.
C2_KeepsAboveFloorInOrder ==
    ConfidenceReturned =>
        LET ws == outcome.value.words
            kept == { i \in Rows : Strip(data.text[i]) # <<>> /\ data.conf[i] >= 510 }
        IN  /\ { ws[j].box.x : j \in 1..Len(ws) } = { data.left[i] : i \in kept }
            /\ \A j, k \in 1..Len(ws) : j < k => ws[j].box.x < ws[k].box.x
            /\ \A j \in 1..Len(ws) : \A i \in Rows :
                  data.left[i] = ws[j].box.x =>
                      /\ ws[j].text = Strip(data.text[i])
                      /\ ws[j].confidence * 10 <= data.conf[i]
                      /\ data.conf[i] < (ws[j].confidence + 1) * 10

\* C2 witness: a token with text and confidence exactly 50 was left out, a
\* token with confidence 51 was kept.
C2_Witness ==
    /\ ConfidenceReturned
    /\ \E i \in Rows : data.conf[i] = 500 /\ Strip(data.text[i]) # <<>>
    /\ \E j \in 1..Len(outcome.value.words) : outcome.value.words[j].confidence = 51

\* C3: the returned 'confidence' is the arithmetic mean of the confidences of
\* the returned tokens rounded to two decimals (no hundredth is nearer to the
\* mean), and 0 when no token is returned.
C3_MeanOfKept ==
    ConfidenceReturned =>
        LET ws == outcome.value.words
            n == Len(ws)
            total == TotalOf(ws, n)
        IN  /\ n = 0 => outcome.value.confidence = 0
            /\ n > 0 => 2 * Abs(n * outcome.value.confidence - 100 * total) <= n

\* C3 witness: three kept tokens whose mean has to be rounded up.
C3_Witness ==
    /\ ConfidenceReturned
    /\ Len(outcome.value.words) = 3
    /\ 2 * ((100 * TotalOf(outcome.value.words, 3)) % 3) > 3

\* C4: high counts the returned tokens with confidence above 80, medium those
\* from 61 to 80, low those of 60 or below, and high + medium + low =
\* word_count = length of 'words'.
C4_Histogram ==
    ConfidenceReturned =>
        LET ws == outcome.value.words
            q == outcome.value.quality_metrics
            idx == 1..Len(ws)
        IN  /\ q.high_confidence_words = Cardinality({ j \in idx : ws[j].confidence > 80 })
            /\ q.medium_confidence_words =
                  Cardinality({ j \in idx : ws[j].confidence >= 61 /\ ws[j].confidence <= 80 })
            /\ q.low_confidence_words = Cardinality({ j \in idx : ws[j].confidence <= 60 })
            /\ q.high_confidence_words + q.medium_confidence_words + q.low_confidence_words
                  = outcome.value.word_count
            /\ outcome.value.word_count = Len(ws)

\* C4 witness: one token in each bucket, with the boundaries 60 and 61 present.
C4_Witness ==
    /\ ConfidenceReturned
    /\ outcome.value.quality_metrics =
          [high_confidence_words |-> 1, medium_confidence_words |-> 1,
           low_confidence_words |-> 1]
    /\ \E j, k \in 1..Len(outcome.value.words) :
          outcome.value.words[j].confidence = 60 /\ outcome.value.words[k].confidence = 61

-----------------------------------------------------------------------------
(* Properties of the text operations (checked under SpecText) *)

\* C5: extract_code returns the engine's string with only trailing whitespace
\* removed: a prefix of it, what is cut being whitespace only, not ending in
\* whitespace itself, so that stripping it again changes nothing.
C5_OnlyTrailingWhitespaceStripped ==
    (outcome.op = "extract_code" /\ outcome.kind = "return") =>
        LET r == outcome.value
            s == engineText
        IN  /\ Len(r) <= Len(s)
            /\ r = SubSeq(s, 1, Len(r))
            /\ \A i \in (Len(r) + 1)..Len(s) : IsSpace(s[i])
            /\ r # <<>> => ~IsSpace(r[Len(r)])
            /\ CodeText(r) = r

\* C5 witness: an indented line followed by a blank and a newline comes back
\* with its indentation and without the trailing blank and newline.
C5_Witness ==
    /\ outcome.op = "extract_code"
    /\ outcome.kind = "return"
    /\ engineText = <<" ", "a", " ", "\n">>
    /\ outcome.value = <<" ", "a">>

\* C6: with the engine not available, an operation that ran has raised an
\* error with a non-empty message, has returned no value, and has called the
\* engine once.
C6_EngineUnavailableRaises ==
    (~engineAvailable /\ outcome # NoOutcome) =>
        /\ outcome.kind = "raise"
        /\ outcome.message # ""
        /\ "value" \notin DOMAIN outcome
        /\ engineCalls = 1

\* C6 witness: extract_code has run without the engine.
C6_Witness ==
    /\ ~engineAvailable
    /\ outcome.op = "extract_code"
    /\ outcome.kind = "raise"

-----------------------------------------------------------------------------
(* Properties of the message flow (checked under SpecFlow) *)

\* C7: an ocr_request whose mode is not a supported one causes no backend
\* request, no clipboard message and no write to history or latestResult,
\* and is answered with an unsupported-mode error.
C7_Original ==
    \A r \in Requests :
        (req[r].pc # "unsent" /\ req[r].mode \notin SupportedModes) =>
            /\ \A i \in 1..Len(backendLog) : backendLog[i].req # r
            /\ \A m \in clipboardMsgs : m.req # r
            /\ \A i \in 1..Len(history) : history[i].id # r
            /\ latestResult.id # r
            /\ req[r].response.sent =>
                  (~req[r].response.success /\ req[r].response.error = "Unsupported mode")

\* C8: the request sent by 'Retry High Accuracy', with mode 'quality', is
\* posted to /ocr/accurate.
C8_Original ==
    \A i \in 1..Len(backendLog) :
        LET r == backendLog[i].req
        IN  (req[r].origin = "retry" /\ req[r].mode = "quality")
                => backendLog[i].path = "/ocr/accurate"

-----------------------------------------------------------------------------
(* Properties of the stored history (checked under SpecHistory) *)

InHistory(r) == \E i \in 1..Len(history) : history[i].id = r

\* the history is full of entries newer than r's
Displaced(r) ==
    /\ Len(history) = HistoryLimit
    /\ \A i \in 1..Len(history) : history[i].id > r

AllWritesDone ==
    /\ \A r \in Requests : upd[r].pc \in {"none", "done"}
    /\ popup.pc = "idle"

\* C9: once every pending storage write has completed, each successful
\* result is in the stored history, unless 50 newer entries displaced it or a
\* deletion or clearing took it out.
C9_Original ==
    AllWritesDone =>
        \A r \in Requests :
            upd[r].pc = "done" => (InHistory(r) \/ Displaced(r) \/ r \in userDeleted)

\* the stored history never holds more than 50 entries
HistoryWithinLimit == Len(history) <= HistoryLimit

\* C10: the stored history holds at most 50 entries in every state, and a
\* write of updatePopup that adds its entry to a stored history of 50 leaves
\* that entry followed by the first 49 of them (only the last is dropped).
C10_Original ==
    /\ []HistoryWithinLimit
    /\ [][ \A r \in Requests :
              (upd[r].pc = "set" /\ upd'[r].pc = "done" /\ Len(history) = HistoryLimit)
                  => history' = <<upd[r].entry>> \o SubSeq(history, 1, HistoryLimit - 1)
         ]_vars

-----------------------------------------------------------------------------
(* Order of the worker's effects for one request (checked under SpecFlow) *)

\* C11: when the success response of a request has been sent, the storage
\* write of its result has completed (the result is saved before the answer
\* is returned).
C11_Original ==
    \A r \in Requests :
        (req[r].response.sent /\ req[r].response.success) => upd[r].pc = "done"

ClipboardMsgsOf(r) == { m \in clipboardMsgs : m.req = r }

Answered(r) == req[r].response.sent

\* C12 as stated: every request answered with success and a non-empty text
\* has had a copy_to_clipboard message with exactly that text sent for it.
C12_Original ==
    \A r \in Requests :
        (Answered(r) /\ req[r].response.success /\ req[r].response.text # "")
            => \E m \in ClipboardMsgsOf(r) :
                  m.action = "copy_to_clipboard" /\ m.text = req[r].response.text

\* C12 amended: a request with non-empty text is answered only after the
\* copy_to_clipboard message for it, carrying exactly that text, has been sent
\* and settled, or after the query for the active tab found no tab (then no
\* message is sent); a clipboard message is never sent once the request is
\* answered, never for an empty text and never for a request that fails.
C12_ClipboardBeforeAnswer ==
    /\ [](\A m \in clipboardMsgs :
              /\ m.action = "copy_to_clipboard"
              /\ m.text # ""
              /\ m.text = req[m.req].result.text
              /\ Answered(m.req) => req[m.req].response.success)
    /\ [][ \A r \in Requests :
              /\ ClipboardMsgsOf(r)' # ClipboardMsgsOf(r)
                    => (~Answered(r) /\ ~Answered(r)')
              /\ (~Answered(r) /\ Answered(r)' /\ req'[r].response.success
                     /\ req'[r].response.text # "")
                    => \/ /\ req[r].pc = "clipwait"
                          /\ \E m \in ClipboardMsgsOf(r) : m.text = req'[r].response.text
                       \/ /\ req[r].pc = "tabs"
                          /\ ClipboardMsgsOf(r)' = {}
         ]_vars

\* C12 witness: one request answered after its text was sent to the active
\* tab, another answered without a message because no tab was found.
C12_Witness ==
    \E r, q \in Requests :
        /\ Answered(r) /\ req[r].response.text = "abc" /\ ClipboardMsgsOf(r) # {}
        /\ Answered(q) /\ req[q].response.text = "abc" /\ ClipboardMsgsOf(q) = {}

FailureMessages == {"Cannot connect to backend", "Backend error"}

NewlyFailed(r) ==
    /\ ~Answered(r)
    /\ Answered(r)'
    /\ ~req'[r].response.success
    /\ req'[r].response.error \in FailureMessages

\* C13: when the backend answers with a non-OK status or the fetch fails, the
\* request is answered with success=false and an error message ('Cannot
\* connect to backend ...' when the fetch fails); the step leaves history,
\* latestResult and the clipboard as they are, and the request never causes a
\* storage write or a clipboard message.
C13_FailureLeavesStateAlone ==
    /\ [](\A r \in Requests :
              (Answered(r) /\ ~req[r].response.success) =>
                  /\ req[r].response.error \in FailureMessages
                  /\ upd[r].pc = "none"
                  /\ ClipboardMsgsOf(r) = {}
                  /\ ~InHistory(r)
                  /\ latestResult.id # r)
    /\ [][ (FetchFails \/ FetchNotOk) =>
              /\ UNCHANGED <<history, latestResult, clipboard, clipboardMsgs, upd>>
              /\ \E r \in Requests : req[r].pc = "fetch" /\ NewlyFailed(r)
         ]_vars
    /\ [][ FetchFails =>
              \E r \in Requests :
                  NewlyFailed(r) /\ req'[r].response.error = "Cannot connect to backend"
         ]_vars

\* C13 witness: a request was answered 'Cannot connect to backend' while the
\* result of another is stored and on the clipboard.
C13_Witness ==
    \E r, p \in Requests :
        /\ Answered(r)
        /\ ~req[r].response.success
        /\ req[r].response.error = "Cannot connect to backend"
        /\ upd[p].pc = "done" /\ InHistory(p) /\ latestResult.id = p
        /\ clipboard = "abc"

-----------------------------------------------------------------------------
(* Properties of the overlay (checked under SpecOverlay) *)

\* the step is the keydown of key k
Pressed(k) == key'.count = key.count + 1 /\ key'.last = k

\* the selections for which an ocr_request was sent
SentSelections == { p[1] : p \in sel.sent }

\* C14: pressing Alt+Shift+D while the overlay is active deactivates it: the
\* overlay element is removed and overlayActive becomes false.
C14_Original ==
    [][ (Pressed("Alt+Shift+D") /\ overlayActive)
            => (~overlayActive' /\ ~selectionOverlay') ]_vars

\* C15: pressing Escape while the overlay is active removes the overlay
\* element, makes overlayActive and isSelecting false and removes the document
\* mousemove, mouseup and keydown listeners; the selection that was in
\* progress is never captured and no ocr_request is ever sent for it.
C15_EscapeCancels ==
    /\ [][ (Pressed("Escape") /\ overlayActive) =>
              /\ ~selectionOverlay'
              /\ ~overlayActive'
              /\ ~isSelecting'
              /\ docListeners' \cap OverlayListeners = {}
              /\ isSelecting => sel.current \in sel'.cancelled
         ]_vars
    /\ [](\A s \in sel.cancelled : s \notin sel.capturing /\ s \notin SentSelections)

\* C15 witness: a selection was cancelled with Escape while the mouse was
\* down, the overlay was activated again, and the request of a later
\* selection has been sent.
C15_Witness ==
    /\ sel.cancelled = {1}
    /\ key.last = "Alt+Shift+S"
    /\ SentSelections = {2}
    /\ overlayActive

-----------------------------------------------------------------------------
(* Properties of API_URL (checked under SpecApi) *)

\* no apiUrl is stored and no set_api_url message has been handled
NothingSaved == api.stored = "" /\ api.sets = 0

\* C16: when no API URL has been saved, every OCR request and every health
\* request of the worker goes to http://localhost:8000.
C16_Original ==
    NothingSaved =>
        \A i \in 1..Len(backendLog) : backendLog[i].url = "http://localhost:8000"

\* the url of the set_api_url message handled last
LastSetUrl == IF api.writes # <<>> THEN api.writes[Len(api.writes)] ELSE api.stored

\* C23 (as stated): once a set_api_url(u) message has been handled, API_URL,
\* which get_api_url answers with and which the next fetch goes to, is u, and
\* it equals the stored apiUrl as soon as no write of apiUrl is pending.
C23_Original ==
    api.sets > 0 =>
        /\ api.url = LastSetUrl
        /\ api.writes = <<>> => api.url = api.stored

-----------------------------------------------------------------------------
(* Properties of the fast preprocessing (checked under SpecPre) *)

\* C17: the buffer preprocess_image_fast returns has the input's height and
\* width and holds only the values 0 and 255.
C17_BinaryOutputSameSize ==
    sharpened # NoImage =>
        /\ sharpened.h = img.h
        /\ sharpened.w = img.w
        /\ DOMAIN sharpened.px = 1..img.h
        /\ \A y \in 1..img.h :
              /\ DOMAIN sharpened.px[y] = 1..img.w
              /\ \A x \in 1..img.w : sharpened.px[y][x] \in {0, 255}

\* C17 witness: an image with three grey levels came back with both values,
\* a white pixel next to black ones (where the kernel sum exceeds 255) and a
\* black pixel next to white ones (where it is negative).
C17_Witness ==
    /\ sharpened # NoImage
    /\ img.h = 2 /\ img.w = 2
    /\ Cardinality({ img.px[q[1]][q[2]] : q \in Places(img) }) = 3
    /\ sharpened.px[1][1] = 255
    /\ sharpened.px[1][2] = 0
    /\ sharpened.px[2][1] = 0

-----------------------------------------------------------------------------
(* Properties of the readiness check (checked under SpecReady) *)

ReadinessChecked == outcome.op = "test_tesseract_installation"

-----------------------------------------------------------------------------
(* Properties of the WebSocket sketch (checked under SpecQueue and SpecWs) *)

QueueFullAnswer(id) == [request_id |-> id, error |-> "Queue full, try again", status |-> "error"]

\* the handler of connection c takes a request off the socket in this step
Receives(c) == conn[c].pc = "receive" /\ Len(conn'[c].inbox) < Len(conn[c].inbox)

\* C19: the OCR queue never holds more than 100 tasks; a request that arrives
\* when the queue is full is answered with the 'Queue full' error and is not
\* enqueued, a request is enqueued only when there is room, and no handler
\* ever blocks on the put.
C19_QueueBounded ==
    /\ [](QSize(ocr_queue) <= 100)
    /\ [](\A c \in Conns : conn[c].pc # "blocked")
    /\ [][ \A c \in Conns :
              Receives(c) =>
                  IF QSize(ocr_queue) >= 100
                  THEN /\ ocr_queue' = ocr_queue
                       /\ conn'[c].pc = "receive"
                       /\ conn'[c].sent =
                             Append(conn[c].sent,
                                    QueueFullAnswer(Head(conn[c].inbox).request_id))
                  ELSE /\ QSize(ocr_queue') = QSize(ocr_queue) + 1
                       /\ conn'[c].pc = "waiting"
                       /\ conn'[c].sent = conn[c].sent
         ]_vars

\* C19 witness: the queue holds 100 tasks, the last of them put by one
\* connection, and another connection has been answered 'Queue full'.
C19_Witness ==
    /\ QSize(ocr_queue) = 100
    /\ ocr_queue.tasks # <<>>
    /\ \E c \in Conns :
          /\ conn[c].sent # <<>>
          /\ conn[c].sent[Len(conn[c].sent)] = QueueFullAnswer(conn[c].request_id)

\* C20: a successful response sent on a connection for request_id r carries
\* the text of the image that connection sent with id r.
C20_Original ==
    \A c \in Conns :
        \A i \in 1..Len(conn[c].sent) :
            LET m == conn[c].sent[i]
            IN  m.status = "success" => m.text = TextOf(<<c, m.request_id>>)


\* C21 (as stated): requests that one client sends back to back are queued
\* together, so none of them is held back in the socket while the handler of
\* its connection waits for the result of an earlier one
C21_Original ==
    \A c \in Conns : conn[c].inbox # <<>> => conn[c].pc = "receive"


-----------------------------------------------------------------------------
(* Properties of the continuous monitor (checked under SpecMonitor) *)

\* the frame checkFrame has just captured, and the last frame sent before it
CheckedFrame == monitor'.frames[Len(monitor'.frames)]

LastSent == monitor.sent[Len(monitor.sent)]

\* the hashes agree in fewer than 85 of 100 places
ChangedOver15(f, g) ==
    LET h == perceptualHash(f)
        k == perceptualHash(g)
    IN  Cardinality({i \in 1..HashBits : h[i] # k[i]}) * 100 > 15 * HashBits

\* C22: the first captured frame is sent; a later frame is sent if and only if
\* its hash similarity to the last frame sent is below 0.85; previousHash is
\* the hash of the last frame sent and changes only when a frame is sent
C22_SendsOnChangeOnly ==
    /\ [](monitor.previousHash = NoHash <=> monitor.sent = <<>>)
    /\ [](monitor.sent # <<>> =>
              monitor.previousHash = perceptualHash(monitor.sent[Len(monitor.sent)]))
    /\ [][ /\ monitor'.frames # monitor.frames =>
                IF monitor.frames = <<>> \/ ChangedOver15(CheckedFrame, LastSent)
                THEN monitor'.sent = Append(monitor.sent, CheckedFrame)
                ELSE monitor'.sent = monitor.sent
           /\ monitor'.previousHash # monitor.previousHash =>
                monitor'.sent # monitor.sent ]_vars

\* a frame was skipped although it differs from the frame checked before it,
\* and a later frame was sent
C22_Witness ==
    /\ Len(monitor.frames) = 3
    /\ monitor.sent = <<monitor.frames[1], monitor.frames[3]>>
    /\ monitor.frames[2] # monitor.frames[1]


-----------------------------------------------------------------------------
(* Properties of the deletion of a history row (checked under SpecHistory) *)

\* C24 (as stated): the entry deleteHistoryItem takes out of the history it
\* has read is the entry shown in the row whose Delete button was clicked.
C24_Original ==
    popup.pc = "delSet" => popup.removed = {popup.clicked}


-----------------------------------------------------------------------------
(* Properties of overlapping captures (checked under SpecFlow) *)

\* C25 (as stated): when two selections were captured, the second before the
\* first was answered, and both responses have been delivered, the modal
\* shows the text of the second selection if its request succeeded.
C25_Original ==
    \A q \in Requests : \A r \in Requests :
        ( /\ q < r
          /\ req[q].origin = "capture" /\ req[q].pc = "delivered"
          /\ req[r].origin = "capture" /\ req[r].pc = "delivered"
          /\ req[r].response.success
          /\ \A p \in Requests : p > r => req[p].pc = "unsent" )
        => /\ modal.shown
           /\ req[modal.req].response.text = req[r].response.text


-----------------------------------------------------------------------------
(* Properties of the retry (checked under SpecFlow) *)

\* C26 (as stated): once the response to the request that 'Retry High
\* Accuracy' sent has been handled, be it a success or a failure, the modal
\* is no longer in its loading state.
C26_Original ==
    \A r \in Requests :
        ( /\ req[r].origin = "retry"
          /\ req[r].pc = "delivered"
          /\ \A p \in Requests : p > r => req[p].pc = "unsent" )
        => ~modal.loading


-----------------------------------------------------------------------------
(* Properties of the connection check (checked under SpecConn) *)

\* call k of checkConnection ends in this step
Ends(k) == connection.calls[k].pc # "done" /\ connection'.calls[k].pc = "done"

EngineOk(call) ==
    /\ call.outcome = "ok"
    /\ call.health.parsed
    /\ call.health.tesseract = [status |-> "ok"]

=============================================================================
